---- MODULE Spec2Model ----
(***************************************************************************)
(* A state-machine model of examples/pima_indian.py: run_example, the      *)
(* driver that samples the Pima-Indian posterior, splits the chains,       *)
(* cross-validates two density-model families, selects and fits one, and   *)
(* reads the learnt harmonic-mean evidence statistics.                     *)
(*                                                                         *)
(* Python indices are kept 0-based for covariate columns; sequences        *)
(* (chains through time, validation-variance lists, grids) are 1-based     *)
(* TLA+ sequences, so Python index i is position i + 1.                    *)
(***************************************************************************)
EXTENDS Integers, Sequences, FiniteSets, TLC

\* ------------------------------------------------------------------ bounds
\* Most walkers, most steps per walker (the burn-in runs from none of them to
\* all of them), and the largest finite validation variance a
\* cross-validation sweep reports.
MaxChains == 10
MaxSamples == 2
MaxVar == 0

\* ------------------------------------------------------- program constants
MinDim == 5
MaxDim == 6
FilledCols == 5
PosCols == 5
nfold == 3
TrainingProportionNum == 1
TrainingProportionDen == 4
CVSeed == 0

\* The +infinity sentinel a failed fit contributes: above every finite value.
Inf == MaxVar + 1
Variances == 0..Inf

\* ndim values tried: the two supported ones and one on either side.
Dims == (MinDim - 1)..(MaxDim + 1)

hyper_parameters_MGMM == << "[1, 1E-8, 0.1, 6, 10]", "[2, 1E-8, 0.5, 6, 10]" >>
hyper_parameters_sphere == << "None" >>
domains_MGMM == "[1E-2, 1E0]"
domains_sphere == "[1E-2, 1E0]"

VARIABLES
    pc, error,
    ndim, nchains, samples_per_chain, nburn,
    x, pos, sampler, samples, lnprob,
    chains, chains_train, chains_test,
    validation_variances_MGMM, best_hyper_param_MGMM_ind,
    validation_variances_sphere, best_hyper_param_sphere_ind,
    model, discarded, nmodels, fit_success, ev,
    trace, cv_calls, fit_received, ev_received, evlog

vars == << pc, error, ndim, nchains, samples_per_chain, nburn,
           x, pos, sampler, samples, lnprob,
           chains, chains_train, chains_test,
           validation_variances_MGMM, best_hyper_param_MGMM_ind,
           validation_variances_sphere, best_hyper_param_sphere_ind,
           model, discarded, nmodels, fit_success, ev,
           trace, cv_calls, fit_received, ev_received, evlog >>

args == << ndim, nchains, samples_per_chain, nburn >>
problem == << x, pos, sampler, samples, lnprob >>
store == << chains, chains_train, chains_test >>
cvMGMM == << validation_variances_MGMM, best_hyper_param_MGMM_ind >>
cvSphere == << validation_variances_sphere, best_hyper_param_sphere_ind >>
selection == << model, discarded, nmodels >>
evidence == << ev, ev_received, evlog >>

\* ----------------------------------------------------------- unset values
NoX == [cols |-> 0, filled |-> {}]
NoPos == [rows |-> 0, cols |-> 0]
NoSampler == [k |-> 0, dim |-> 0, chain |-> << >>, lnprobability |-> << >>]
NoChains == [ndim |-> 0, chain |-> << >>]
NoModel == [id |-> 0, family |-> "None", ndim |-> 0, domains |-> "None",
            hyper_parameters |-> "None", hp_from |-> "None", fitted |-> FALSE]
NoEvidence == [state |-> "None", nchains |-> 0, model |-> 0]

\* ---------------------------------------------------------------- helpers
\* Python's s[nb:] on a sequence.
SliceFrom(s, nb) ==
    LET start == IF nb < 0
                 THEN (IF Len(s) + nb < 0 THEN 0 ELSE Len(s) + nb)
                 ELSE (IF nb > Len(s) THEN Len(s) ELSE nb)
    IN  SubSeq(s, start + 1, Len(s))

\* An arg-min that keeps the last of several least values.
ArgMinLast(v) ==
    CHOOSE i \in 1..Len(v) :
        /\ \A j \in 1..Len(v) : v[i] <= v[j]
        /\ \A j \in (i + 1)..Len(v) : v[j] # v[i]

\* np.argmin: the first position holding the least value.
ArgMin(v) ==
    CHOOSE i \in 1..Len(v) :
        /\ \A j \in 1..Len(v) : v[i] <= v[j]
        /\ \A j \in 1..(i - 1) : v[j] # v[i]

\* The function f restricted to the set S.
Restrict(f, S) == [c \in S |-> f[c]]

Ids(cs) == DOMAIN cs.chain

Init ==
    /\ pc = "start"
    /\ error = "None"
    /\ ndim \in Dims
    /\ nchains \in 1..MaxChains
    /\ samples_per_chain \in 1..MaxSamples
    /\ nburn \in 0..samples_per_chain
    /\ x = NoX
    /\ pos = NoPos
    /\ sampler = NoSampler
    /\ samples = << >>
    /\ lnprob = << >>
    /\ chains = NoChains
    /\ chains_train = NoChains
    /\ chains_test = NoChains
    /\ validation_variances_MGMM = << >>
    /\ best_hyper_param_MGMM_ind = 0
    /\ validation_variances_sphere = << >>
    /\ best_hyper_param_sphere_ind = 0
    /\ model = NoModel
    /\ discarded = {}
    /\ nmodels = 0
    /\ fit_success = "None"
    /\ ev = NoEvidence
    /\ trace = << >>
    /\ cv_calls = << >>
    /\ fit_received = NoChains
    /\ ev_received = NoChains
    /\ evlog = << >>

\* lines 95-97: only ndim 5 and 6 pass.
CheckNdim ==
    /\ pc = "start"
    /\ IF ndim # MinDim /\ ndim # MaxDim
       THEN /\ pc' = "raised"
            /\ error' = "ValueError"
       ELSE /\ pc' = "load"
            /\ UNCHANGED error
    /\ UNCHANGED << args, problem, store, cvMGMM, cvSphere, selection,
                    fit_success, evidence, trace, cv_calls, fit_received >>

\* lines 124-136: the covariate matrix; columns 0..4 are assigned, the
\* assignment of column 5 is commented out.
LoadData ==
    /\ pc = "load"
    /\ x' = [cols |-> ndim, filled |-> 0..(FilledCols - 1)]
    /\ pc' = "pos"
    /\ UNCHANGED << error, args, pos, sampler, samples, lnprob, store, cvMGMM,
                    cvSphere, selection, fit_success, evidence, trace,
                    cv_calls, fit_received >>

\* lines 162-173: np.c_ of pos_0..pos_4; pos_5 is commented out.
BuildPositions ==
    /\ pc = "pos"
    /\ pos' = [rows |-> nchains, cols |-> PosCols]
    /\ pc' = "sample"
    /\ UNCHANGED << error, args, x, sampler, samples, lnprob, store, cvMGMM,
                    cvSphere, selection, fit_success, evidence, trace,
                    cv_calls, fit_received >>

\* line 82: x.dot(theta) needs as many columns in x as entries in theta, and
\* theta is a row of pos.
DotDefined(xm, p) == xm.cols = p.cols

\* What the sampler holds after run_mcmc: per walker, the parameter vector
\* and the ln_posterior value of each step.
SamplerChain(k, dim, n) ==
    [c \in 1..k |-> [t \in 1..n |-> [walker |-> c, step |-> t, dim |-> dim]]]

SamplerLnprobability(k, n) ==
    [c \in 1..k |-> [t \in 1..n |-> [of_walker |-> c, of_step |-> t]]]

\* line 190: sampler.chain[:, nburn:, :]
SamplesSlice(chain, nb) == [c \in DOMAIN chain |-> SliceFrom(chain[c], nb)]

\* A slice of the right length taken from the wrong end: the values of the
\* first steps instead of those of the retained ones.
LnprobSliceHead(lp, nb) ==
    [c \in DOMAIN lp |-> SubSeq(lp[c], 1, Len(SliceFrom(lp[c], nb)))]

\* line 191: sampler.lnprobability[:, nburn:]
LnprobSlice(lp, nb) == [c \in DOMAIN lp |-> SliceFrom(lp[c], nb)]

\* lines 186-191: build the sampler, run it from pos, strip the burn-in.
RunSampler ==
    /\ pc = "sample"
    /\ IF DotDefined(x, pos)
       THEN /\ sampler' = [k |-> nchains, dim |-> ndim,
                           chain |-> SamplerChain(nchains, ndim,
                                                  samples_per_chain),
                           lnprobability |->
                               SamplerLnprobability(nchains, samples_per_chain)]
            /\ samples' = SamplesSlice(sampler'.chain, nburn)
            /\ lnprob' = LnprobSlice(sampler'.lnprobability, nburn)
            /\ pc' = "chains"
            /\ UNCHANGED error
       ELSE /\ pc' = "raised"
            /\ error' = "ValueError"
            /\ UNCHANGED << sampler, samples, lnprob >>
    /\ UNCHANGED << args, x, pos, store, cvMGMM, cvSphere, selection,
                    fit_success, evidence, trace, cv_calls, fit_received >>

\* hm.Chains.add_chains_3d: chain c pairs its k-th sample with its k-th
\* ln_posterior value.
AddChains3d(nd, smp, lnp) ==
    [ndim |-> nd,
     chain |-> [c \in DOMAIN smp |->
                  [k \in 1..Len(smp[c]) |->
                     [theta |-> smp[c][k], ln_posterior |-> lnp[c][k]]]]]

\* lines 201-202
BuildChains ==
    /\ pc = "chains"
    /\ chains' = AddChains3d(ndim, samples, lnprob)
    /\ trace' = Append(trace, "chains")
    /\ pc' = "split"
    /\ UNCHANGED << error, args, problem, chains_train, chains_test, cvMGMM,
                    cvSphere, selection, fit_success, evidence, cv_calls,
                    fit_received >>

\* round(training_proportion * n); a tie may round either way.
TrainCounts(n) ==
    { k \in 0..n :
        /\ 2 * (TrainingProportionDen * k - TrainingProportionNum * n)
              <= TrainingProportionDen
        /\ 2 * (TrainingProportionNum * n - TrainingProportionDen * k)
              <= TrainingProportionDen }

\* hm.utils.split_data: whole chains go to train or to test.
SplitData(cs, k, T) ==
    << [ndim |-> cs.ndim, chain |-> Restrict(cs.chain, T)],
       [ndim |-> cs.ndim, chain |-> Restrict(cs.chain, Ids(cs) \ T)] >>

\* lines 203-204
Split ==
    /\ pc = "split"
    /\ \E k \in TrainCounts(nchains) :
         IF k = 0 \/ k = nchains
         THEN /\ pc' = "raised"
              /\ error' = "InvalidProportion"
              /\ UNCHANGED << chains_train, chains_test, trace >>
         ELSE \E T \in { S \in SUBSET Ids(chains) : Cardinality(S) = k } :
              /\ chains_train' = SplitData(chains, k, T)[1]
              /\ chains_test' = SplitData(chains, k, T)[2]
              /\ trace' = Append(trace, "split")
              /\ pc' = "cv_MGMM"
              /\ UNCHANGED error
    /\ UNCHANGED << args, problem, chains, cvMGMM, cvSphere, selection,
                    fit_success, evidence, cv_calls, fit_received >>

RECURSIVE SetToSeq(_)
\* The elements of a set of numbers in increasing order.
SetToSeq(S) ==
    IF S = {} THEN << >>
    ELSE LET m == CHOOSE a \in S : \A b \in S : a <= b
         IN  << m >> \o SetToSeq(S \ {m})

\* The k-fold partition of a collection's chains: a function of the chains,
\* the fold count and the seed alone.
Folds(cs, nf, seed) ==
    LET s == SetToSeq(Ids(cs))
        val(i) == { s[p] : p \in { q \in 1..Len(s) : (q - 1 + seed) % nf = i } }
    IN  [i \in 1..nf |-> [validate |-> val(i - 1),
                          train |-> Ids(cs) \ val(i - 1)]]

\* hm.utils.cross_validation as called: what it was given and the folds it
\* built from that.
CrossValidation(cs, domains, grid, nf, modelClass, seed) ==
    [modelClass |-> modelClass, chains |-> cs, domains |-> domains,
     hyper_parameters |-> grid, nfold |-> nf, seed |-> seed,
     folds |-> Folds(cs, nf, seed)]

\* lines 217-223: the arguments of the first cross_validation call.
CVCallMGMM ==
    CrossValidation(chains_train, domains_MGMM, hyper_parameters_MGMM, nfold,
                    "ModifiedGaussianMixtureModel", CVSeed)

\* The second call seeded differently from the first.
CVCallSphereReseeded ==
    CrossValidation(chains_train, domains_sphere, hyper_parameters_sphere,
                    nfold, "HyperSphere", CVSeed + 1)

\* lines 231-236: the arguments of the second cross_validation call.
CVCallSphere ==
    CrossValidation(chains_train, domains_sphere, hyper_parameters_sphere,
                    nfold, "HyperSphere", CVSeed)

\* lines 217-228: one validation variance per grid entry, Inf for a failed
\* fit; then np.argmin.
CrossValidateMGMM ==
    /\ pc = "cv_MGMM"
    /\ IF CVCallMGMM.nfold > Cardinality(Ids(CVCallMGMM.chains))
       THEN /\ pc' = "raised"
            /\ error' = "InsufficientChains"
            /\ UNCHANGED << cvMGMM, cv_calls, trace >>
       ELSE /\ cv_calls' = Append(cv_calls, CVCallMGMM)
            /\ \E v \in [1..Len(hyper_parameters_MGMM) -> Variances] :
                 /\ validation_variances_MGMM' = v
                 /\ best_hyper_param_MGMM_ind' = ArgMin(v)
            /\ trace' = Append(trace, "cv_MGMM")
            /\ pc' = "cv_sphere"
            /\ UNCHANGED error
    /\ UNCHANGED << args, problem, store, cvSphere, selection, fit_success,
                    evidence, fit_received >>

\* lines 231-241
CrossValidateSphere ==
    /\ pc = "cv_sphere"
    /\ cv_calls' = Append(cv_calls, CVCallSphere)
    /\ \E v \in [1..Len(hyper_parameters_sphere) -> Variances] :
         /\ validation_variances_sphere' = v
         /\ best_hyper_param_sphere_ind' = ArgMin(v)
    /\ trace' = Append(trace, "cv_sphere")
    /\ pc' = "select"
    /\ UNCHANGED << error, args, problem, store, cvMGMM, selection,
                    fit_success, evidence, fit_received >>

\* lines 227-228 and 240-241
best_hyper_param_MGMM == hyper_parameters_MGMM[best_hyper_param_MGMM_ind]
best_hyper_param_sphere ==
    hyper_parameters_sphere[best_hyper_param_sphere_ind]

\* lines 252-255
best_var_MGMM == validation_variances_MGMM[best_hyper_param_MGMM_ind]
best_var_sphere == validation_variances_sphere[best_hyper_param_sphere_ind]

\* A comparison that gives a tie to the mixture model.
MGMMWinsOrTies == best_var_MGMM <= best_var_sphere

\* line 256
MGMMWins == best_var_MGMM < best_var_sphere

\* A model constructor call; hp_from tells whether the hyper-parameters
\* argument was a cross-validation result or a literal.
NewModel(id, family, nd, domains, hp, from) ==
    [id |-> id, family |-> family, ndim |-> nd, domains |-> domains,
     hyper_parameters |-> hp, hp_from |-> from, fitted |-> FALSE]

\* lines 256-261
SelectMGMM ==
    /\ pc = "select"
    /\ MGMMWins
    /\ model' = NewModel(nmodels + 1, "ModifiedGaussianMixtureModel", ndim,
                         domains_MGMM, best_hyper_param_MGMM, "selected")
    /\ nmodels' = nmodels + 1
    /\ trace' = Append(trace, "select")
    /\ pc' = "fit"
    /\ UNCHANGED << error, args, problem, store, cvMGMM, cvSphere, discarded,
                    fit_success, evidence, cv_calls, fit_received >>

\* lines 262-266: the HyperSphere built from the selected hyper-parameters
\* is rebound at once to one built with hyper_parameters=None.
SelectSphere ==
    /\ pc = "select"
    /\ ~MGMMWins
    /\ discarded' = discarded \cup
           { NewModel(nmodels + 1, "HyperSphere", ndim, domains_sphere,
                      best_hyper_param_sphere, "selected") }
    /\ model' = NewModel(nmodels + 2, "HyperSphere", ndim, domains_sphere,
                         "None", "fixed")
    /\ nmodels' = nmodels + 2
    /\ trace' = Append(trace, "select")
    /\ pc' = "fit"
    /\ UNCHANGED << error, args, problem, store, cvMGMM, cvSphere,
                    fit_success, evidence, cv_calls, fit_received >>

\* line 274: the collection whose samples and ln_posterior go to model.fit.
FitChains == chains_train

\* The fit left out: the selected model goes to the estimator as built.
FitModelSkipped ==
    /\ pc = "fit"
    /\ pc' = "evidence"
    /\ UNCHANGED << error, args, problem, store, cvMGMM, cvSphere, selection,
                    fit_success, evidence, trace, cv_calls, fit_received >>

\* lines 274-275: fit returns its success flag, which is logged.
FitModel ==
    /\ pc = "fit"
    /\ fit_received' = FitChains
    /\ model' = [model EXCEPT !.fitted = TRUE]
    /\ \E ok \in {"True", "False"} : fit_success' = ok
    /\ trace' = Append(trace, "fit")
    /\ pc' = "evidence"
    /\ UNCHANGED << error, args, problem, store, cvMGMM, cvSphere, discarded,
                    nmodels, evidence, cv_calls >>

\* line 286
CreateEvidence ==
    /\ pc = "evidence"
    /\ ev' = [state |-> "Created",
              nchains |-> Cardinality(Ids(chains_test)),
              model |-> model.id]
    /\ evlog' = Append(evlog, "create")
    /\ trace' = Append(trace, "evidence")
    /\ pc' = "add_chains"
    /\ UNCHANGED << error, args, problem, store, cvMGMM, cvSphere, selection,
                    fit_success, ev_received, cv_calls, fit_received >>

\* The whole collection handed to the estimator.
EvidenceChainsAll == chains

\* line 287: the collection handed to ev.add_chains.
EvidenceChains == chains_test

\* line 287
AddChains ==
    /\ pc = "add_chains"
    /\ ev_received' = EvidenceChains
    /\ ev' = [ev EXCEPT !.state = "Accumulating"]
    /\ evlog' = Append(evlog, "add")
    /\ trace' = Append(trace, "add_chains")
    /\ pc' = "log_stats"
    /\ UNCHANGED << error, args, problem, store, cvMGMM, cvSphere, selection,
                    fit_success, cv_calls, fit_received >>

\* Reading a statistic of the estimator: the first read finalizes it.
ReadStatistics(e) == [e EXCEPT !.state = "Finalized"]

\* lines 301-309: ln_evidence_inv, ln_evidence_inv_var, ln_kurtosis, n_eff,
\* ln_evidence_inv_var_var.
ReadLogSpace ==
    /\ pc = "log_stats"
    /\ ev' = ReadStatistics(ev)
    /\ evlog' = Append(evlog, "read")
    /\ trace' = Append(trace, "read")
    /\ pc' = "real_stats"
    /\ UNCHANGED << error, args, problem, store, cvMGMM, cvSphere, selection,
                    fit_success, ev_received, cv_calls, fit_received >>

\* The chains added once more between two reports.
ReadRealSpaceAfterAdd ==
    /\ pc = "real_stats"
    /\ ev' = [ev EXCEPT !.state = "Accumulating"]
    /\ evlog' = evlog \o << "add", "read" >>
    /\ trace' = Append(trace, "read")
    /\ pc' = "technical"
    /\ UNCHANGED << error, args, problem, store, cvMGMM, cvSphere, selection,
                    fit_success, ev_received, cv_calls, fit_received >>

\* lines 313-322: the same statistics in real space.
ReadRealSpace ==
    /\ pc = "real_stats"
    /\ ev' = ReadStatistics(ev)
    /\ evlog' = Append(evlog, "read")
    /\ trace' = Append(trace, "read")
    /\ pc' = "technical"
    /\ UNCHANGED << error, args, problem, store, cvMGMM, cvSphere, selection,
                    fit_success, ev_received, cv_calls, fit_received >>

\* lines 329-346: extrema, shift, statspace, running_sum, sample counts.
ReadTechnical ==
    /\ pc = "technical"
    /\ ev' = ReadStatistics(ev)
    /\ evlog' = Append(evlog, "read")
    /\ trace' = Append(trace, "read")
    /\ pc' = "done"
    /\ UNCHANGED << error, args, problem, store, cvMGMM, cvSphere, selection,
                    fit_success, ev_received, cv_calls, fit_received >>

Next ==
    \/ CheckNdim
    \/ LoadData
    \/ BuildPositions
    \/ RunSampler
    \/ BuildChains
    \/ Split
    \/ CrossValidateMGMM
    \/ CrossValidateSphere
    \/ SelectMGMM
    \/ SelectSphere
    \/ FitModel
    \/ CreateEvidence
    \/ AddChains
    \/ ReadLogSpace
    \/ ReadRealSpace
    \/ ReadTechnical

Spec == Init /\ [][Next]_vars

\* ------------------------------------------------------------------ claims
StageOrder == << "chains", "split", "cv_MGMM", "cv_sphere", "select", "fit",
                 "evidence", "add_chains", "read" >>
\* The stage history of a complete run: the statistics are read in three
\* groups.
CompleteRun == StageOrder \o << "read", "read" >>

AfterSplit == {"cv_MGMM", "cv_sphere", "select", "fit", "evidence",
               "add_chains", "log_stats", "real_stats", "technical", "done"}
AfterSelect == {"fit", "evidence", "add_chains", "log_stats", "real_stats",
                "technical", "done"}

SamplesOf(cs) ==
    UNION { { cs.chain[c][k].theta : k \in 1..Len(cs.chain[c]) } :
            c \in Ids(cs) }

IsFirstMin(v, i) ==
    /\ i \in 1..Len(v)
    /\ \A j \in 1..Len(v) : v[i] <= v[j]
    /\ \A j \in 1..Len(v) : j < i => v[j] > v[i]

MinOf(v) == CHOOSE m \in { v[i] : i \in 1..Len(v) } :
                \A j \in 1..Len(v) : m <= v[j]

\* C1: past the ndim guard the stages run in the order chains, split,
\* cross-validation of both families, selection, fit, estimator creation,
\* add_chains, statistic reads; none is skipped, and a finished run has done
\* them all.
C1_StagesInOrder ==
    /\ Len(trace) <= Len(CompleteRun)
    /\ trace = SubSeq(CompleteRun, 1, Len(trace))
    /\ trace # << >> => ndim \in {MinDim, MaxDim}
    /\ pc = "split" => Len(trace) = 1
    /\ pc = "cv_MGMM" => Len(trace) = 2
    /\ pc = "cv_sphere" => Len(trace) = 3
    /\ pc = "select" => Len(trace) = 4
    /\ pc = "fit" => Len(trace) = 5
    /\ pc = "evidence" => Len(trace) = 6
    /\ pc = "add_chains" => Len(trace) = 7
    /\ pc = "log_stats" => Len(trace) = 8
    /\ pc = "real_stats" => Len(trace) = 9
    /\ pc = "technical" => Len(trace) = 10
    /\ pc = "done" => trace = CompleteRun

C1_Witness ==
    /\ pc = "done"
    /\ trace = CompleteRun
    /\ ev.state = "Finalized"

\* C2: train and test are a partition of the input chains; cross-validation
\* and fit get chains_train only, the estimator gets chains_test only, and no
\* chain or sample given to cross-validation or fit reaches the estimator.
C2_TrainTestSeparated ==
    /\ pc \in AfterSplit =>
        /\ Ids(chains_train) \cap Ids(chains_test) = {}
        /\ Ids(chains_train) \cup Ids(chains_test) = Ids(chains)
        /\ Ids(fit_received) \cap Ids(ev_received) = {}
        /\ \A i \in 1..Len(cv_calls) :
             Ids(cv_calls[i].chains) \cap Ids(ev_received) = {}
    \* what each call was given, once the estimator has its chains
    /\ pc = "log_stats" =>
        /\ Len(cv_calls) = 2
        /\ \A i \in 1..Len(cv_calls) :
             /\ cv_calls[i].chains = chains_train
             /\ SamplesOf(cv_calls[i].chains) \cap SamplesOf(ev_received) = {}
        /\ fit_received = chains_train
        /\ ev_received = chains_test
        /\ SamplesOf(fit_received) \cap SamplesOf(ev_received) = {}

C2_Witness ==
    /\ pc = "log_stats"
    /\ Len(cv_calls) = 2
    /\ SamplesOf(fit_received) # {}
    /\ SamplesOf(ev_received) # {}
    /\ ev_received = chains_test

\* C3: within each family the chosen grid entry is the first one attaining
\* the family's least validation variance (Inf included), and the family
\* whose model is built has a best variance no greater than the other's.
C3_FirstMinimumSelected ==
    /\ pc = "cv_sphere" =>
         /\ IsFirstMin(validation_variances_MGMM, best_hyper_param_MGMM_ind)
         /\ Len(validation_variances_MGMM) = Len(hyper_parameters_MGMM)
    /\ pc = "select" =>
         /\ IsFirstMin(validation_variances_sphere,
                       best_hyper_param_sphere_ind)
         /\ Len(validation_variances_sphere) = Len(hyper_parameters_sphere)
    /\ pc = "fit" =>
         /\ IsFirstMin(validation_variances_MGMM, best_hyper_param_MGMM_ind)
         /\ IsFirstMin(validation_variances_sphere,
                       best_hyper_param_sphere_ind)
         /\ IF model.family = "ModifiedGaussianMixtureModel"
            THEN /\ MinOf(validation_variances_MGMM)
                      <= MinOf(validation_variances_sphere)
                 /\ \E i \in 1..Len(hyper_parameters_MGMM) :
                      /\ IsFirstMin(validation_variances_MGMM, i)
                      /\ model.hyper_parameters = hyper_parameters_MGMM[i]
            ELSE /\ model.family = "HyperSphere"
                 /\ MinOf(validation_variances_sphere)
                      <= MinOf(validation_variances_MGMM)
                 /\ \E i \in 1..Len(hyper_parameters_sphere) :
                      /\ IsFirstMin(validation_variances_sphere, i)
                      /\ model.hyper_parameters = hyper_parameters_sphere[i]

C3_Witness ==
    /\ pc = "fit"
    /\ validation_variances_MGMM[1] = validation_variances_MGMM[2]
    /\ validation_variances_sphere[1] = Inf
    /\ model.family = "ModifiedGaussianMixtureModel"
    /\ model.hyper_parameters = hyper_parameters_MGMM[1]

\* C4: the model fitted and handed to the estimator is the one constructed
\* with the cross-validated hyper-parameters of the winning family; no model
\* so constructed is discarded for one built with fixed hyper-parameters.
C4_NoOverride ==
    /\ discarded = {}
    /\ pc \in AfterSelect => model.hp_from = "selected"

\* C5: the estimator is created once, with chains_test.nchains and the
\* model; every add_chains precedes the first statistic read, and nothing
\* but reads follows a read.
C5_EvidenceLifecycle ==
    /\ \A i \in 1..Len(evlog) : (evlog[i] = "create") <=> (i = 1)
    /\ \A i, j \in 1..Len(evlog) :
         (i < j /\ evlog[i] = "read") => evlog[j] = "read"
    /\ ev.state = "None" <=> evlog = << >>
    /\ ev.state # "None" =>
         /\ ev.nchains = Cardinality(Ids(chains_test))
         /\ ev.model = model.id
         /\ ev.state = (CASE evlog[Len(evlog)] = "create" -> "Created"
                          [] evlog[Len(evlog)] = "add" -> "Accumulating"
                          [] OTHER -> "Finalized")
    /\ ev.state = "Finalized" => ev_received = chains_test

C5_Witness ==
    /\ pc = "done"
    /\ evlog = << "create", "add", "read", "read", "read" >>
    /\ ev.state = "Finalized"

\* C6: the flag returned by model.fit decides whether the estimator is built
\* and its statistics reported: after a fit that returned false the run does
\* not go on as after one that returned true.
C6_FitFlagChecked ==
    fit_success = "False" =>
        /\ ev.state = "None"
        /\ pc \notin {"add_chains", "log_stats", "real_stats", "technical",
                      "done"}

\* C7: for nburn < samples_per_chain every chain given to add_chains_3d has
\* samples_per_chain - nburn samples, the k-th being step nburn + k of the
\* same walker paired with that step's ln_posterior, each of dimension ndim
\* (stated of the collection as add_chains_3d leaves it).
C7_BurnInStrippedAligned ==
    (pc = "split" /\ nburn < samples_per_chain) =>
        /\ chains.ndim = ndim
        /\ Ids(chains) = 1..nchains
        /\ \A c \in Ids(chains) :
             /\ Len(chains.chain[c]) = samples_per_chain - nburn
             /\ Len(samples[c]) = Len(lnprob[c])
             /\ \A k \in 1..Len(chains.chain[c]) :
                  /\ chains.chain[c][k].theta = sampler.chain[c][nburn + k]
                  /\ chains.chain[c][k].ln_posterior
                       = sampler.lnprobability[c][nburn + k]
                  /\ chains.chain[c][k].theta.walker = c
                  /\ chains.chain[c][k].theta.step = nburn + k
                  /\ chains.chain[c][k].ln_posterior.of_walker = c
                  /\ chains.chain[c][k].ln_posterior.of_step = nburn + k
                  /\ chains.chain[c][k].theta.dim = ndim

C7_Witness ==
    /\ pc = "split"
    /\ nburn = 1
    /\ samples_per_chain = 2
    /\ Len(chains.chain[nchains]) = 1
    /\ chains.chain[nchains][1].theta.step = 2

\* C8: every ndim other than 5 and 6 raises ValueError, and for 5 and for 6
\* the start positions have ndim columns and all ndim columns of x are
\* filled, in agreement with the ndim given to the sampler.
C8_BothDimsWork ==
    /\ (pc # "start" /\ ndim \notin {MinDim, MaxDim})
          => (pc = "raised" /\ error = "ValueError")
    /\ (pc \notin {"start", "load"} /\ ndim \in {MinDim, MaxDim})
          => (x.cols = ndim /\ x.filled = 0..(ndim - 1))
    /\ (pc \notin {"start", "load", "pos"} /\ ndim \in {MinDim, MaxDim})
          => pos.cols = ndim
    /\ (ndim \in {MinDim, MaxDim}) => error # "ValueError"

\* C9: both cross_validation calls get the same chains_train, nfold and
\* seed 0, so their fold partitions are equal, and the collection later
\* fitted on is the one that was cross-validated.
C9_SameFolds ==
    /\ Len(cv_calls) <= 2
    /\ pc = "select" =>
         /\ Len(cv_calls) = 2
         /\ \A i \in 1..2 :
              /\ cv_calls[i].chains = chains_train
              /\ cv_calls[i].nfold = nfold
              /\ cv_calls[i].seed = 0
         /\ cv_calls[1].modelClass = "ModifiedGaussianMixtureModel"
         /\ cv_calls[2].modelClass = "HyperSphere"
         /\ cv_calls[1].chains = cv_calls[2].chains
         /\ cv_calls[1].folds = cv_calls[2].folds
    /\ pc = "evidence" =>
         /\ Len(cv_calls) = 2
         /\ cv_calls[1].seed = cv_calls[2].seed
         /\ cv_calls[1].folds = cv_calls[2].folds
         /\ fit_received = cv_calls[1].chains
         /\ fit_received = cv_calls[2].chains
         /\ fit_received = chains_train

C9_Witness ==
    /\ pc = "evidence"
    /\ Len(cv_calls) = 2
    /\ Len(cv_calls[2].folds) = nfold
    /\ \A i \in 1..nfold : cv_calls[2].folds[i].validate # {}
    /\ fit_received = chains_train

\* C10: ModifiedGaussianMixtureModel is selected exactly when its best
\* validation variance is strictly below HyperSphere's; a tie, also at Inf,
\* goes to HyperSphere; one model is bound when fit is called.
C10_TieGoesToSphere ==
    pc = "fit" =>
        /\ model.family \in {"ModifiedGaussianMixtureModel", "HyperSphere"}
        /\ (model.family = "ModifiedGaussianMixtureModel")
             <=> (MinOf(validation_variances_MGMM)
                    < MinOf(validation_variances_sphere))
        /\ (MinOf(validation_variances_MGMM)
              = MinOf(validation_variances_sphere))
             => model.family = "HyperSphere"
        /\ model.id = nmodels
        /\ model.ndim = ndim
        /\ ~model.fitted

C10_Witness ==
    /\ pc = "fit"
    /\ model.family = "HyperSphere"
    /\ MinOf(validation_variances_MGMM) = Inf
    /\ MinOf(validation_variances_sphere) = Inf
====
